---- MODULE Spec2Model ----
(***************************************************************************)
(* Model of rpc/client.py: the Client that owns a language-server process, *)
(* writes framed requests to its stdin and runs two reader threads, one    *)
(* over stdout (read_stdout) and one over stderr (read_stderr).            *)
(*                                                                         *)
(* Three threads are modelled: the calling thread (send_request,           *)
(* send_notification, kill), the stdout thread and the stderr thread.  The *)
(* server process is the environment: it receives what was written to its  *)
(* stdin, emits frames on stdout, lines on stderr, and may exit.           *)
(***************************************************************************)
EXTENDS Integers, Sequences, FiniteSets, TLC

\* ------------------------------------------------------------------ bounds
MaxReq == 2        \* send_request calls made by the calling thread
MaxNotif == 1      \* send_notification calls made by the calling thread
MaxMsgs == 2       \* frames the server writes to stdout
MaxErrLines == 1   \* lines the server writes to stderr
MaxStrLen == 1     \* characters of a string value in a payload put on the wire

\* ------------------------------------------------------------- value sets
None == "None"
Proc == "proc"                      \* the Popen object passed to __init__
Callables == {"hA", "hB"}           \* handler callables a caller can pass
RequestMethods == {"initialize"}    \* Request.method values of the caller

\* An id the client never issues within the bound.
UnknownId == MaxReq + 1

\* Names bound in the module namespace of client.py: its imports
\* (lines 1-7) and its own top-level definitions.  Evaluating any other
\* global name raises NameError.
ModuleNames == {"json", "sys", "threading", "Request", "Notification",
                "debug", "printf", "server_log", "Events", "log_stderr",
                "format_request", "Client"}

IsBound(name) == name \in ModuleNames

\* ------------------------------------------------------------------ state
VARIABLES
    process,      \* self.process: Proc or None
    alive,        \* process.poll() is None
    request_id,   \* self.request_id
    handlers,     \* self.handlers: id -> callable
    cpc,          \* calling thread: position inside send_request
    cargs,        \* calling thread: arguments of the send_request in progress
    issued,       \* payloads built by send_request, with the handler passed
    notified,     \* number of send_notification calls made
    stdin,        \* what the server has received on its stdin, in order
    callerExc,    \* exception the last call of the calling thread raised
    callerLog,    \* log lines printed by the calling thread
    emitted,      \* every frame the server has written to stdout, in order
    stdout,       \* frames written and not yet read by the stdout thread
    stdoutOpen,   \* the server's end of the stdout pipe is open
    opc,          \* stdout thread: position inside read_stdout
    content_length, \* read_stdout local
    content,      \* read_stdout local: the body just read
    payload,      \* read_stdout local: the decoded body
    calls,        \* invocations of callables made by the stdout thread
    outLog,       \* log lines printed by the stdout thread
    errLines,     \* lines written to stderr, not yet read
    errWritten,   \* lines the server has written to stderr
    epc,          \* stderr thread: position inside read_stderr
    errLog,       \* log lines printed by the stderr thread
    log_stderr,   \* the imported setting log_stderr (line 7)
    wire,         \* stdout as bytes: written and not yet read
    fed,          \* the blocks written to `wire`, in order
    decoded       \* the objects json.loads returned, in order

callerVars == <<request_id, handlers, cpc, cargs, issued, notified, stdin,
                callerExc, callerLog>>
serverVars == <<emitted, stdout, stdoutOpen, errLines, errWritten>>
outVars == <<opc, content_length, content, payload, calls, outLog>>
errVars == <<epc, errLog>>
wireVars == <<wire, fed, decoded>>
vars == <<process, alive, callerVars, serverVars, outVars, errVars,
         log_stderr, wireVars>>

\* ------------------------------------------------- messages and framing
\* A decoded JSON object is a function from its field names to values, so
\* that `"id" in payload` is `"id" \in DOMAIN payload`.
Has(p, field) == field \in DOMAIN p

\* payload.get(field): the value, or None when the field is absent.
Get(p, field) == IF Has(p, field) THEN p[field] ELSE None

NoPayload == [none |-> None]        \* payload = None (line 87)

NotificationMethods == {"textDocument/publishDiagnostics",
                        "window/showMessage", "window/logMessage",
                        "custom/notify"}
ServerRequestMethods == {"workspace/applyEdit", "custom/request"}

\* The result a server computes for request k.
ResultOf(k) == "r" \o ToString(k)

\* JSON objects a server can send, given the ids it may answer.
ResponsesFor(ids) == {[id |-> k, result |-> ResultOf(k)] : k \in ids}
ErrorsFor(ids) == {[id |-> k, error |-> "e" \o ToString(k)] : k \in ids}
Notifications == {[method |-> m, params |-> "p"] : m \in NotificationMethods}
ServerRequests == {[method |-> m, params |-> "p", id |-> 1] :
                       m \in ServerRequestMethods}
UnknownPayloads == {[params |-> "p"]}

\* An object with each of the fields error, method and id present or not
\* (k = 0: no id).
Fields(e, m, k) ==
    (IF e THEN [error |-> "e"] ELSE <<>>)
      @@ (IF m THEN [method |-> "custom/notify"] ELSE <<>>)
      @@ (IF k > 0 THEN [id |-> k] ELSE <<>>)
      @@ [params |-> "p"]

PresenceObjects(ids) ==
    {Fields(e, m, k) : e \in BOOLEAN, m \in BOOLEAN, k \in ids \cup {0}}

ObjectsFor(ids) == ResponsesFor(ids) \cup ErrorsFor(ids) \cup Notifications
                     \cup ServerRequests \cup UnknownPayloads
                     \cup PresenceObjects(ids)

\* A body is text; `valid` says whether json.loads accepts it and `obj` is
\* the object it denotes when it does.
JsonText(obj) == [valid |-> TRUE, obj |-> obj]
Garbage == [valid |-> FALSE, obj |-> NoPayload]
NoContent == [valid |-> FALSE, obj |-> [none |-> "unread"]]

\* A frame on stdout: the header block with its declared Content-Length
\* (0 also stands for a header block without Content-Length) and the body
\* bytes that follow it.
Frame(len, body) == [len |-> len, body |-> body]
EmptyFrame == Frame(0, NoContent)

FramesFor(ids) == {Frame(1, JsonText(o)) : o \in ObjectsFor(ids)}
                    \cup {Frame(1, Garbage), EmptyFrame}

\* json.loads(content) (line 89): the object, or ValueError.
json_loads(text) == IF text.valid THEN [ok |-> TRUE, value |-> text.obj]
                    ELSE [ok |-> FALSE, value |-> NoPayload]

\* Request.to_payload(id) / Notification.to_payload() as used on lines 47
\* and 51: the outbound message shapes.
RequestPayload(method, id) == [method |-> method, id |-> id]
NotificationPayload(method) == [method |-> method]

\* Ids of the requests the server has received.
ReceivedIds == {stdin[i].id : i \in {j \in 1..Len(stdin) : Has(stdin[j], "id")}}

\* ------------------------------------------------------------------- Init
\* Client.__init__ (lines 19-28), after it returned: both threads started,
\* nothing sent, nothing received.
NoArgs == [method |-> None, handler |-> None]

Constructed ==
    /\ process = Proc
    /\ alive = TRUE
    /\ request_id = 0
    /\ handlers = <<>>
    /\ cpc = "idle"
    /\ cargs = NoArgs
    /\ issued = <<>>
    /\ notified = 0
    /\ stdin = <<>>
    /\ callerExc = None
    /\ callerLog = <<>>
    /\ emitted = <<>>
    /\ stdout = <<>>
    /\ stdoutOpen = TRUE
    /\ opc = "poll"
    /\ content_length = 0
    /\ content = NoContent
    /\ payload = NoPayload
    /\ calls = <<>>
    /\ outLog = <<>>
    /\ errLines = 0
    /\ errWritten = 0
    /\ epc = "poll"
    /\ errLog = <<>>
    /\ wire = <<>>
    /\ fed = <<>>
    /\ decoded = <<>>

\* The setting is read by the stderr thread only.
Init == Constructed /\ log_stderr = FALSE

InitLoops == Constructed /\ log_stderr \in BOOLEAN

\* --------------------------------------------------------- calling thread
\* Variant: no try around the write, BrokenPipeError leaves the call.
send_payload_uncaught(p) ==
    IF process = None
      THEN [stdin |-> stdin, log |-> <<>>, exc |-> "AttributeError"]
    ELSE IF ~alive
      THEN [stdin |-> stdin, log |-> <<>>, exc |-> "BrokenPipeError"]
    ELSE [stdin |-> Append(stdin, p), log |-> <<>>, exc |-> None]

\* Variant: the message is put in front of what was written before.
send_payload_prepend(p) ==
    IF process = None
      THEN [stdin |-> stdin, log |-> <<>>, exc |-> "AttributeError"]
    ELSE IF ~alive
      THEN [stdin |-> stdin, log |-> <<"client unexpectedly died:">>,
            exc |-> None]
    ELSE [stdin |-> <<p>> \o stdin, log |-> <<>>, exc |-> None]

\* send_payload (lines 56-62).  Returns what the call does to stdin, to the
\* caller's log and the exception that leaves it.  self.process is None
\* after the stdout thread's IOError exit: the attribute access raises
\* AttributeError, which `except BrokenPipeError` does not catch.
send_payload(p) ==
    IF process = None
      THEN [stdin |-> stdin, log |-> <<>>, exc |-> "AttributeError"]
    ELSE IF ~alive
      THEN [stdin |-> stdin, log |-> <<"client unexpectedly died:">>,
            exc |-> None]
    ELSE [stdin |-> Append(stdin, p), log |-> <<>>, exc |-> None]

\* Variant: the id is taken from the size of the handler table.
SendRequestIncrement_tablesize(method, handler) ==
    /\ cpc = "idle"
    /\ request_id < MaxReq
    /\ request_id' = Cardinality(DOMAIN handlers) + 1
    /\ cargs' = [method |-> method, handler |-> handler]
    /\ callerLog' = Append(callerLog, "request")
    /\ cpc' = "register"
    /\ UNCHANGED <<wireVars, process, alive, handlers, issued, notified, stdin,
                   callerExc, serverVars, outVars, errVars, log_stderr>>

\* send_request, line 43: self.request_id += 1, and line 44.
SendRequestIncrement(method, handler) ==
    /\ cpc = "idle"
    /\ request_id < MaxReq
    /\ request_id' = request_id + 1
    /\ cargs' = [method |-> method, handler |-> handler]
    /\ callerLog' = Append(callerLog, "request")
    /\ cpc' = "register"
    /\ UNCHANGED <<wireVars, process, alive, handlers, issued, notified, stdin,
                   callerExc, serverVars, outVars, errVars, log_stderr>>

\* Variant: the entry is stored whether or not a handler was passed.
SendRequestRegister_always ==
    /\ cpc = "register"
    /\ handlers' = (request_id :> cargs.handler) @@ handlers
    /\ cpc' = "send"
    /\ UNCHANGED <<wireVars, process, alive, request_id, cargs, issued, notified, stdin,
                   callerExc, callerLog, serverVars, outVars, errVars,
                   log_stderr>>

\* Variant: the handler is registered under the id before the increment.
SendRequestRegister_stale ==
    /\ cpc = "register"
    /\ handlers' = IF cargs.handler # None
                     THEN ((request_id - 1) :> cargs.handler) @@ handlers
                     ELSE handlers
    /\ cpc' = "send"
    /\ UNCHANGED <<wireVars, process, alive, request_id, cargs, issued, notified, stdin,
                   callerExc, callerLog, serverVars, outVars, errVars,
                   log_stderr>>

\* send_request, lines 45-46: register the handler unless it is None.
SendRequestRegister ==
    /\ cpc = "register"
    /\ handlers' = IF cargs.handler # None
                     THEN (request_id :> cargs.handler) @@ handlers
                     ELSE handlers
    /\ cpc' = "send"
    /\ UNCHANGED <<wireVars, process, alive, request_id, cargs, issued, notified, stdin,
                   callerExc, callerLog, serverVars, outVars, errVars, log_stderr>>

\* send_request, line 47: build the payload with the current id, write it.
SendRequestSend ==
    /\ cpc = "send"
    /\ LET p == RequestPayload(cargs.method, request_id)
           r == send_payload(p)
       IN /\ issued' = Append(issued, [id |-> p.id, method |-> p.method,
                                       handler |-> cargs.handler])
          /\ stdin' = r.stdin
          /\ callerLog' = callerLog \o r.log
          /\ callerExc' = r.exc
    /\ cpc' = "idle"
    /\ cargs' = NoArgs
    /\ UNCHANGED <<wireVars, process, alive, request_id, handlers, notified,
                   serverVars, outVars, errVars, log_stderr>>

\* send_notification (lines 49-51).
SendNotification(method) ==
    /\ cpc = "idle"
    /\ notified < MaxNotif
    /\ notified' = notified + 1
    /\ LET r == send_payload(NotificationPayload(method))
       IN /\ stdin' = r.stdin
          /\ callerLog' = Append(callerLog, "notify") \o r.log
          /\ callerExc' = r.exc
    /\ UNCHANGED <<wireVars, process, alive, request_id, handlers, cpc, cargs, issued,
                   serverVars, outVars, errVars, log_stderr>>

\* kill (lines 53-54): self.process.kill().  The process's ends of the
\* pipes close with it; what it had written stays readable.
Kill ==
    /\ cpc = "idle"
    /\ IF process = None
         THEN /\ callerExc' = "AttributeError"
              /\ UNCHANGED <<alive, stdoutOpen>>
         ELSE /\ callerExc' = None
              /\ alive' = FALSE
              /\ stdoutOpen' = FALSE
    /\ UNCHANGED <<wireVars, process, request_id, handlers, cpc, cargs, issued,
                   notified, stdin, callerLog, emitted, stdout, errLines,
                   errWritten, outVars, errVars, log_stderr>>

\* ------------------------------------------------------------ environment
\* The server writes a frame to stdout.  It answers only requests it has
\* received, or uses an id the client never issued.
ServerEmit(f) ==
    /\ alive
    /\ stdoutOpen
    /\ Len(emitted) < MaxMsgs
    /\ f \in FramesFor(ReceivedIds \cup {UnknownId})
    /\ emitted' = Append(emitted, f)
    /\ stdout' = Append(stdout, f)
    /\ UNCHANGED <<wireVars, process, alive, callerVars, stdoutOpen, errLines,
                   errWritten, outVars, errVars, log_stderr>>

\* The server writes a line to stderr.
ServerEmitStderr ==
    /\ alive
    /\ errWritten < MaxErrLines
    /\ errWritten' = errWritten + 1
    /\ errLines' = errLines + 1
    /\ UNCHANGED <<wireVars, process, alive, callerVars, emitted, stdout, stdoutOpen,
                   outVars, errVars, log_stderr>>

\* The server closes its stdout and keeps running.
ServerCloseStdout ==
    /\ alive
    /\ stdoutOpen
    /\ stdoutOpen' = FALSE
    /\ UNCHANGED <<wireVars, process, alive, callerVars, emitted, stdout, errLines,
                   errWritten, outVars, errVars, log_stderr>>

\* The server exits on its own.
ServerExit ==
    /\ alive
    /\ alive' = FALSE
    /\ stdoutOpen' = FALSE
    /\ UNCHANGED <<wireVars, process, callerVars, emitted, stdout, errLines,
                   errWritten, outVars, errVars, log_stderr>>

\* ------------------------------------------------------------- exceptions
\* The classes an exception is an instance of (Python's hierarchy, as far
\* as the except clauses of client.py tell them apart).
Classes(exc) ==
    CASE exc = "IOError"          -> {"IOError", "Exception"}
      [] exc = "BrokenPipeError"  -> {"BrokenPipeError", "IOError", "Exception"}
      [] exc = "ValueError"       -> {"ValueError", "Exception"}
      [] exc = "KeyError"         -> {"KeyError", "Exception"}
      [] exc = "NameError"        -> {"NameError", "Exception"}
      [] exc = "AttributeError"   -> {"AttributeError", "Exception"}
      [] exc = "RuntimeError"     -> {"RuntimeError", "Exception"}
      [] OTHER                    -> {}

\* `except clause:` catches exc.
Catches(clause, exc) == clause \in Classes(exc)

\* What a callable invoked by the stdout thread can do: return, or raise.
CallOutcomes == {None, "RuntimeError", "IOError"}

\* ---------------------------------------------------------- stdout thread
\* Variant: the loop does not look at the process, `while True`.
StdoutPoll_forever ==
    /\ opc = "poll"
    /\ opc' = "headers"
    /\ UNCHANGED <<wireVars, process, alive, callerVars, serverVars, content_length,
                   content, payload, calls, outLog, errVars, log_stderr>>

\* Line 70, `while self.process.poll() is None`, and line 121 after it.
StdoutPoll ==
    /\ opc = "poll"
    /\ IF alive
         THEN /\ opc' = "headers"
              /\ UNCHANGED outLog
         ELSE /\ opc' = "ended"
              /\ outLog' = Append(outLog, "LSP stdout process ended.")
    /\ UNCHANGED <<wireVars, process, alive, callerVars, serverVars, content_length,
                   content, payload, calls, errVars, log_stderr>>

\* Lines 73-83: read header lines up to the empty line.  readline blocks
\* while the pipe is open and empty; at end of stream it returns b'', which
\* is an empty header as well.  With content_length 0 the iteration ends.
StdoutReadHeaders ==
    /\ opc = "headers"
    /\ \/ /\ stdout # <<>>
          /\ content_length' = Head(stdout).len
          /\ IF Head(stdout).len > 0
               THEN /\ opc' = "body"
                    /\ UNCHANGED stdout
               ELSE /\ opc' = "poll"
                    /\ stdout' = Tail(stdout)
       \/ /\ stdout = <<>>
          /\ ~stdoutOpen
          /\ content_length' = 0
          /\ opc' = "poll"
          /\ UNCHANGED stdout
    /\ UNCHANGED <<wireVars, process, alive, callerVars, emitted, stdoutOpen, errLines,
                   errWritten, content, payload, calls, outLog, errVars,
                   log_stderr>>

\* Lines 84-85: read content_length bytes and decode them.
StdoutReadBody ==
    /\ opc = "body"
    /\ stdout # <<>>
    /\ content' = Head(stdout).body
    /\ stdout' = Tail(stdout)
    /\ opc' = "parse"
    /\ UNCHANGED <<wireVars, process, alive, callerVars, emitted, stdoutOpen, errLines,
                   errWritten, content_length, payload, calls, outLog,
                   errVars, log_stderr>>

\* Lines 114-119: a read raises IOError; the outer handler logs, terminates
\* the process, clears self.process and returns.
StdoutIOError ==
    /\ opc \in {"headers", "body"}
    /\ outLog' = Append(outLog, "LSP stdout process ending due to exception: ")
    /\ alive' = FALSE
    /\ stdoutOpen' = FALSE
    /\ process' = None
    /\ opc' = "failed"
    /\ UNCHANGED <<wireVars, callerVars, emitted, stdout, errLines, errWritten,
                   content_length, content, payload, calls, errVars,
                   log_stderr>>

\* Lines 87-95: json.loads.  A body that does not parse raises ValueError
\* (json.JSONDecodeError); the clause on line 93 names IOError, and so
\* does the outer one on line 114.
ParseClause == "IOError"        \* line 93
OuterClause == "IOError"        \* line 114

StdoutParse ==
    /\ opc = "parse"
    /\ LET r == json_loads(content)
       IN IF r.ok
            THEN /\ payload' = r.value
                 /\ outLog' = IF Get(r.value, "method") # "window/logMessage"
                                THEN Append(outLog, "got json: ")
                                ELSE outLog
                 /\ opc' = "dispatch"
                 /\ UNCHANGED <<process, alive, stdoutOpen>>
          ELSE IF Catches(ParseClause, "ValueError")
            THEN /\ payload' = NoPayload
                 /\ outLog' = Append(outLog, "Got a non-JSON payload: ")
                 /\ opc' = "poll"
                 /\ UNCHANGED <<process, alive, stdoutOpen>>
          ELSE IF Catches(OuterClause, "ValueError")
            THEN /\ payload' = NoPayload
                 /\ outLog' = Append(outLog,
                                "LSP stdout process ending due to exception: ")
                 /\ alive' = FALSE
                 /\ stdoutOpen' = FALSE
                 /\ process' = None
                 /\ opc' = "failed"
          ELSE /\ payload' = NoPayload
               /\ opc' = "crashed"
               /\ UNCHANGED <<process, alive, stdoutOpen, outLog>>
    /\ UNCHANGED <<wireVars, callerVars, emitted, stdout, errLines, errWritten,
                   content_length, content, calls, errVars, log_stderr>>

\* A step of dispatch yields the invocations made, the lines logged and the
\* exception that leaves it (None when it returns).
Outcome(c, l, e) == [calls |-> c, log |-> l, exc |-> e]

Invocation(target, arg) == [target |-> target, arg |-> arg]

\* Evaluating a global name the module does not bind raises NameError
\* before the call it is part of is made; otherwise the call is made and
\* returns or raises as the callable decides.
CallGlobal(name, target, arg, o) ==
    IF IsBound(name) THEN Outcome(<<Invocation(target, arg)>>, <<>>, o)
    ELSE Outcome(<<>>, <<>>, "NameError")

\* Variant: looks the handler up under the client's latest id.
response_handler_latest(response, h, o) ==
    LET result == Get(response, "result")
    IN IF request_id \notin DOMAIN h
         THEN Outcome(<<>>, <<"error handling response">>, "KeyError")
       ELSE IF o = None
         THEN Outcome(<<Invocation(h[request_id], result)>>, <<>>, None)
       ELSE Outcome(<<Invocation(h[request_id], result)>>,
                    <<"error handling response">>, o)

\* Variant: a missing key is skipped silently.
response_handler_silent(response, h, o) ==
    LET handler_id == response.id
        result == Get(response, "result")
    IN IF handler_id \notin DOMAIN h
         THEN Outcome(<<>>, <<>>, None)
       ELSE IF o = None
         THEN Outcome(<<Invocation(h[handler_id], result)>>, <<>>, None)
       ELSE Outcome(<<Invocation(h[handler_id], result)>>,
                    <<"error handling response">>, o)

\* response_handler (lines 139-149).  The table is read, never written.
\* A missing key raises KeyError; whatever is raised inside is logged by
\* the except clause on line 147 and raised again.
response_handler(response, h, o) ==
    LET handler_id == response.id
        result == Get(response, "result")
    IN IF handler_id \notin DOMAIN h
         THEN Outcome(<<>>, <<"error handling response">>, "KeyError")
       ELSE IF o = None
         THEN Outcome(<<Invocation(h[handler_id], result)>>, <<>>, None)
       ELSE Outcome(<<Invocation(h[handler_id], result)>>,
                    <<"error handling response">>, o)

\* request_handler (lines 151-157).
request_handler(request, o) ==
    IF Get(request, "method") = "workspace/applyEdit"
      THEN CallGlobal("apply_workspace_edit", "apply_workspace_edit",
                      Get(request, "params"), o)
    ELSE Outcome(<<>>, <<"Unhandled request">>, None)

\* notification_handler (lines 159-170).
notification_handler(response, o) ==
    LET method == Get(response, "method")
    IN IF method = "textDocument/publishDiagnostics"
         THEN CallGlobal("Events", "Events.publish",
                         Get(response, "params"), o)
       ELSE IF method = "window/showMessage"
         THEN CallGlobal("sublime", "message_dialog",
                         Get(response, "params"), o)
       ELSE IF method = "window/logMessage"
         THEN IF ~IsBound("log_server")
                THEN Outcome(<<>>, <<>>, "NameError")
              ELSE CallGlobal("server_log", "server_log",
                              Get(response, "params"), o)
       ELSE Outcome(<<>>, <<"Unhandled notification:">>, None)

\* Variant: a response is recognised by its id before the error is looked at.
Classify_idfirst(p) ==
    IF Has(p, "method")
      THEN (IF Has(p, "id") THEN "request" ELSE "notification")
    ELSE IF Has(p, "id") THEN "response"
    ELSE IF Has(p, "error") THEN "error"
    ELSE "unknown"

\* Variant: the method is looked at before the error.
Classify_methodfirst(p) ==
    IF Has(p, "method")
      THEN (IF Has(p, "id") THEN "request" ELSE "notification")
    ELSE IF Has(p, "error") THEN "error"
    ELSE IF Has(p, "id") THEN "response"
    ELSE "unknown"

\* Lines 98-110: the branch taken for a decoded object.
Classify(p) ==
    IF Has(p, "error") THEN "error"
    ELSE IF Has(p, "method")
      THEN (IF Has(p, "id") THEN "request" ELSE "notification")
    ELSE IF Has(p, "id") THEN "response"
    ELSE "unknown"

\* Lines 97-112: dispatch of one decoded object, and the except clause on
\* line 111 around it.
\* Variant: the clause around dispatch names IOError like the other two.
DispatchClause_io == "IOError"

DispatchClause == "Exception"   \* line 111

Dispatch(p, h, o) ==
    LET branch == Classify(p)
        r == CASE branch = "error" ->
                    LET c == CallGlobal("sublime", "status_message",
                                        p.error, o)
                    IN Outcome(c.calls, <<"got error: ">> \o c.log, c.exc)
               [] branch = "request" -> request_handler(p, o)
               [] branch = "notification" -> notification_handler(p, o)
               [] branch = "response" -> response_handler(p, h, o)
               [] OTHER -> Outcome(<<>>, <<"Unknown payload type: ">>, None)
    IN IF r.exc # None /\ Catches(DispatchClause, r.exc)
         THEN Outcome(r.calls,
                      r.log \o <<"Error handling server content:">>, None)
       ELSE r

StdoutDispatch(o) ==
    /\ opc = "dispatch"
    /\ LET r == Dispatch(payload, handlers, o)
       IN /\ calls' = calls \o r.calls
          /\ outLog' = outLog \o r.log
          /\ opc' = IF r.exc = None THEN "poll" ELSE "crashed"
    /\ UNCHANGED <<wireVars, process, alive, callerVars, serverVars, content_length,
                   content, payload, errVars, log_stderr>>

\* ---------------------------------------------------------- stderr thread
\* Line 127, `while self.process.poll() is None`, and line 137 after it.
\* self.process is None once the stdout thread has run line 118: the
\* attribute access raises AttributeError outside any try.
StderrPoll ==
    /\ epc = "poll"
    /\ IF process = None
         THEN /\ epc' = "crashed"
              /\ UNCHANGED errLog
       ELSE IF alive
         THEN /\ epc' = "read"
              /\ UNCHANGED errLog
       ELSE /\ epc' = "ended"
            /\ errLog' = Append(errLog, "LSP stderr process ended.")
    /\ UNCHANGED <<wireVars, process, alive, callerVars, serverVars, outVars,
                   log_stderr>>

\* Line 129, evaluating self.process.stderr before the blocking readline.
\* AttributeError is not caught by `except IOError` (line 132).
StderrBeginRead ==
    /\ epc = "read"
    /\ epc' = IF process = None THEN "crashed" ELSE "reading"
    /\ UNCHANGED <<wireVars, process, alive, callerVars, serverVars, outVars, errLog,
                   log_stderr>>

\* Lines 129-131: readline returns a line, or b'' at end of stream.
StderrReadLine ==
    /\ epc = "reading"
    /\ \/ /\ errLines > 0
          /\ errLines' = errLines - 1
          /\ errLog' = IF log_stderr THEN Append(errLog, "(stderr): ")
                       ELSE errLog
       \/ /\ errLines = 0
          /\ ~alive
          /\ UNCHANGED <<errLines, errLog>>
    /\ epc' = "poll"
    /\ UNCHANGED <<wireVars, process, alive, callerVars, emitted, stdout, stdoutOpen,
                   errWritten, outVars, log_stderr>>

\* Lines 132-135: readline raises IOError; the loop logs and returns.
StderrIOError ==
    /\ epc = "reading"
    /\ errLog' = Append(errLog, "LSP stderr process ending due to exception: ")
    /\ epc' = "failed"
    /\ UNCHANGED <<wireVars, process, alive, callerVars, serverVars, outVars,
                   log_stderr>>

\* ------------------------------------------------------------------- Next
\* The correlation and dispatch path: the calling thread's send_request
\* against the stdout thread, with the server answering.  The stderr
\* thread writes nothing these steps read, so it is left at its start.
\* The server sends responses with a result or an error, a body that is
\* not JSON, a notification whose sink is a callable and a server request.
DispatchFrames ==
    {Frame(1, JsonText(o)) :
        o \in ResponsesFor(1..UnknownId) \cup ErrorsFor(1..MaxReq)
              \cup {[method |-> "textDocument/publishDiagnostics",
                     params |-> "p"],
                    [method |-> "workspace/applyEdit", params |-> "p",
                     id |-> 1]}}
      \cup {Frame(1, Garbage)}

Next ==
    \/ \E m \in RequestMethods, h \in Callables \cup {None} :
          SendRequestIncrement(m, h)
    \/ SendRequestRegister
    \/ SendRequestSend
    \/ \E f \in DispatchFrames : ServerEmit(f)
    \/ StdoutPoll
    \/ StdoutReadHeaders
    \/ StdoutReadBody
    \/ StdoutParse
    \/ \E o \in CallOutcomes : StdoutDispatch(o)

Spec == Init /\ [][Next]_vars

\* The lifecycle of the two reader loops against the calling thread: reads
\* that fail, the process exiting or being killed, writes after that.  The
\* server's frames are limited to those that tell the loops' exits apart.
LoopFrames == {Frame(1, JsonText([id |-> 1, result |-> ResultOf(1)])),
               Frame(1, Garbage)}

NextLoops ==
    \/ \E m \in RequestMethods, h \in {"hA"} : SendRequestIncrement(m, h)
    \/ SendRequestRegister
    \/ SendRequestSend
    \/ \E m \in {"initialized"} : SendNotification(m)
    \/ Kill
    \/ \E f \in LoopFrames : ServerEmit(f)
    \/ ServerEmitStderr
    \/ ServerCloseStdout
    \/ ServerExit
    \/ StdoutPoll
    \/ StdoutReadHeaders
    \/ StdoutReadBody
    \/ StdoutIOError
    \/ StdoutParse
    \/ \E o \in CallOutcomes : StdoutDispatch(o)
    \/ StderrPoll
    \/ StderrBeginRead
    \/ StderrReadLine
    \/ StderrIOError

SpecLoops == InitLoops /\ [][NextLoops]_vars

\* ------------------------------------------------------ the wire, as bytes
\* Text is a sequence of characters and the wire a sequence of bytes, each
\* written as a one-character string; the two bytes of the UTF-8 form of
\* "é" are written "xC3" and "xA9".
Take(s, n) == SubSeq(s, 1, n)
Drop(s, n) == SubSeq(s, n + 1, Len(s))
StartsWith(s, prefix) ==
    Len(s) >= Len(prefix) /\ Take(s, Len(prefix)) = prefix

\* Characters a string value of a payload is made of.
Chars == {"a", "é", "\""}

RECURSIVE StringsUpTo(_)
StringsUpTo(n) ==
    IF n = 0 THEN {<<>>}
    ELSE LET shorter == StringsUpTo(n - 1)
         IN shorter \cup {Append(t, c) : t \in shorter, c \in Chars}

\* str.format of an int (line 14): its decimal digits.
DigitChars == <<"0", "1", "2", "3", "4", "5", "6", "7", "8", "9">>

RECURSIVE Decimal(_)
Decimal(n) ==
    IF n < 10 THEN <<DigitChars[n + 1]>>
    ELSE Append(Decimal(n \div 10), DigitChars[(n % 10) + 1])

\* bytes(message, 'UTF-8') (line 59).
RECURSIVE UTF8Encode(_)
UTF8Encode(text) ==
    IF text = <<>> THEN <<>>
    ELSE (IF Head(text) = "é" THEN <<"xC3", "xA9">> ELSE <<Head(text)>>)
           \o UTF8Encode(Tail(text))

\* bytes.decode("UTF-8") (lines 84-85): the text, or UnicodeDecodeError.
RECURSIVE UTF8Decode(_)
UTF8Decode(bytes) ==
    IF bytes = <<>> THEN [ok |-> TRUE, value |-> <<>>]
    ELSE IF Head(bytes) = "xC3"
      THEN IF Len(bytes) >= 2 /\ bytes[2] = "xA9"
             THEN LET r == UTF8Decode(Drop(bytes, 2))
                  IN [ok |-> r.ok, value |-> <<"é">> \o r.value]
           ELSE [ok |-> FALSE, value |-> <<>>]
    ELSE IF Head(bytes) = "xA9" THEN [ok |-> FALSE, value |-> <<>>]
    ELSE LET r == UTF8Decode(Tail(bytes))
         IN [ok |-> r.ok, value |-> <<Head(bytes)>> \o r.value]

\* The fields of the objects put on the wire, in the order the dict holds
\* them, their names as text, and which of them hold an int.
KeyOrder == <<"id", "result", "error">>
KeyText(k) == CASE k = "id" -> <<"i", "d">>
                [] k = "result" -> <<"r", "e", "s", "u", "l", "t">>
                [] k = "error" -> <<"e", "r", "r", "o", "r">>
IsIntField(k) == k = "id"

\* Variant: ensure_ascii=False, non-ASCII characters are written as they are.
EscapeChar_raw(c) ==
    CASE c = "\"" -> <<"\\", "\"">>
      [] c = "\\" -> <<"\\", "\\">>
      [] OTHER -> <<c>>

\* json.dumps of a str with ensure_ascii left at its default (line 12):
\* quotes and backslashes are escaped, a non-ASCII character becomes \uXXXX.
EscapeChar(c) ==
    CASE c = "\"" -> <<"\\", "\"">>
      [] c = "\\" -> <<"\\", "\\">>
      [] c = "é" -> <<"\\", "u", "0", "0", "e", "9">>
      [] OTHER -> <<c>>

RECURSIVE EscapeText(_)
EscapeText(text) ==
    IF text = <<>> THEN <<>>
    ELSE EscapeChar(Head(text)) \o EscapeText(Tail(text))

DumpString(text) == <<"\"">> \o EscapeText(text) \o <<"\"">>

DumpValue(k, v) == IF IsIntField(k) THEN Decimal(v) ELSE DumpString(v)

\* The members of object p for the keys given, separated by ", ".
RECURSIVE DumpMembers(_, _)
DumpMembers(keys, p) ==
    IF keys = <<>> THEN <<>>
    ELSE LET k == Head(keys)
             rest == DumpMembers(Tail(keys), p)
         IN IF ~Has(p, k) THEN rest
            ELSE DumpString(KeyText(k)) \o <<":", " ">> \o DumpValue(k, p[k])
                   \o (IF rest = <<>> THEN <<>> ELSE <<",", " ">> \o rest)

\* json.dumps(payload, sort_keys=False) (line 12).
json_dumps(p) == <<"{">> \o DumpMembers(KeyOrder, p) \o <<"}">>

ContentLengthHeader ==
    <<"C", "o", "n", "t", "e", "n", "t", "-", "L", "e", "n", "g", "t", "h",
      ":", " ">>                                           \* line 68
CRLF == <<"\r", "\n">>

\* format_request (lines 10-15): the length is len(content), in characters.
format_request(p) ==
    LET wcontent == json_dumps(p)
        wcontent_length == Len(wcontent)
    IN ContentLengthHeader \o Decimal(wcontent_length) \o CRLF \o CRLF
         \o wcontent

\* int(bytes) (line 81): surrounding whitespace is dropped, the rest must
\* be decimal digits, or ValueError is raised.
IsDigit(c) == \E d \in 1..10 : DigitChars[d] = c
DigitValue(c) == (CHOOSE d \in 1..10 : DigitChars[d] = c) - 1

Whitespace == {" ", "\t", "\r", "\n"}

RECURSIVE StripLeft(_)
StripLeft(s) ==
    IF s # <<>> /\ Head(s) \in Whitespace THEN StripLeft(Tail(s)) ELSE s

RECURSIVE StripRight(_)
StripRight(s) ==
    IF s # <<>> /\ s[Len(s)] \in Whitespace
      THEN StripRight(Take(s, Len(s) - 1))
    ELSE s

\* bytes.strip() (line 76).
Strip(s) == StripRight(StripLeft(s))

RECURSIVE DigitsValue(_, _)
DigitsValue(s, n) ==
    IF s = <<>> THEN n ELSE DigitsValue(Tail(s), n * 10 + DigitValue(Head(s)))

int(s) ==
    LET d == Strip(s)
    IN IF d # <<>> /\ \A i \in 1..Len(d) : IsDigit(d[i])
         THEN [ok |-> TRUE, value |-> DigitsValue(d, 0)]
       ELSE [ok |-> FALSE, value |-> 0]

\* readline() on an open pipe: the bytes up to and including the first
\* "\n"; <<>> stands for a call that has to wait for more bytes.
RECURSIVE LineLength(_, _)
LineLength(w, i) ==
    IF i > Len(w) THEN 0
    ELSE IF w[i] = "\n" THEN i
    ELSE LineLength(w, i + 1)

readline(w) == Take(w, LineLength(w, 1))

\* Lines 75-81: the loop over header lines, started with content_length cl
\* on bytes w.  It ends at the empty line ("done"), waits for bytes
\* ("blocked") or raises ValueError from int() ("error").
RECURSIVE ReadHeaderBlock(_, _)
ReadHeaderBlock(w, cl) ==
    LET line == readline(w)
        header == Strip(line)
        rest == Drop(w, Len(line))
    IN IF line = <<>> THEN [state |-> "blocked", rest |-> w, cl |-> cl]
       ELSE IF Len(header) = 0 THEN [state |-> "done", rest |-> rest, cl |-> cl]
       ELSE IF StartsWith(header, ContentLengthHeader)
         THEN LET v == int(Drop(header, Len(ContentLengthHeader)))
              IN IF v.ok THEN ReadHeaderBlock(rest, v.value)
                 ELSE [state |-> "error", rest |-> rest, cl |-> cl]
       ELSE ReadHeaderBlock(rest, cl)

\* json.loads on text (line 89), for objects whose values are ints and
\* strings.  At(t, i) is "" past the end of the text.
At(t, i) == IF i <= Len(t) THEN t[i] ELSE ""

RECURSIVE SkipWs(_, _)
SkipWs(t, i) == IF At(t, i) \in Whitespace THEN SkipWs(t, i + 1) ELSE i

ParseFail == [ok |-> FALSE, value |-> <<>>, next |-> 0]
Parsed(v, next) == [ok |-> TRUE, value |-> v, next |-> next]

\* The characters of a string from position i, after the opening quote.
\* Of the \uXXXX escapes only the one the model's alphabet needs is read.
RECURSIVE ParseStringBody(_, _, _)
ParseStringBody(t, i, acc) ==
    LET c == At(t, i)
        e == At(t, i + 1)
    IN IF c = "" THEN ParseFail
       ELSE IF c = "\"" THEN Parsed(acc, i + 1)
       ELSE IF c = "\\"
         THEN IF e = "\"" \/ e = "\\"
                THEN ParseStringBody(t, i + 2, Append(acc, e))
              ELSE IF e = "u" /\ SubSeq(t, i + 2, i + 5) = <<"0", "0", "e", "9">>
                THEN ParseStringBody(t, i + 6, Append(acc, "é"))
              ELSE ParseFail
       ELSE ParseStringBody(t, i + 1, Append(acc, c))

ParseString(t, i) ==
    IF At(t, i) = "\"" THEN ParseStringBody(t, i + 1, <<>>) ELSE ParseFail

RECURSIVE ParseDigits(_, _, _)
ParseDigits(t, i, n) ==
    IF IsDigit(At(t, i))
      THEN ParseDigits(t, i + 1, n * 10 + DigitValue(At(t, i)))
    ELSE Parsed(n, i)

ParseValue(t, i) ==
    IF At(t, i) = "\"" THEN ParseString(t, i)
    ELSE IF IsDigit(At(t, i)) THEN ParseDigits(t, i, 0)
    ELSE ParseFail

\* The field a key's text names ("?" for a name outside the model).
KeyOf(text) ==
    IF \E i \in 1..Len(KeyOrder) : KeyText(KeyOrder[i]) = text
      THEN KeyOrder[CHOOSE i \in 1..Len(KeyOrder) : KeyText(KeyOrder[i]) = text]
    ELSE "?"

EmptyObject == <<>>

RECURSIVE ParseMembers(_, _, _)
ParseMembers(t, i, obj) ==
    LET k == ParseString(t, SkipWs(t, i))
        colon == SkipWs(t, k.next)
        v == ParseValue(t, SkipWs(t, colon + 1))
        after == SkipWs(t, v.next)
        obj2 == (KeyOf(k.value) :> v.value) @@ obj
    IN IF ~k.ok THEN ParseFail
       ELSE IF At(t, colon) # ":" THEN ParseFail
       ELSE IF ~v.ok THEN ParseFail
       ELSE IF At(t, after) = "," THEN ParseMembers(t, after + 1, obj2)
       ELSE IF At(t, after) = "}" THEN Parsed(obj2, after + 1)
       ELSE ParseFail

json_loads_text(t) ==
    LET open == SkipWs(t, 1)
        first == SkipWs(t, open + 1)
        r == IF At(t, open) # "{" THEN ParseFail
             ELSE IF At(t, first) = "}" THEN Parsed(EmptyObject, first + 1)
             ELSE ParseMembers(t, first, EmptyObject)
    IN IF r.ok /\ SkipWs(t, r.next) = Len(t) + 1
         THEN [ok |-> TRUE, value |-> r.value]
       ELSE [ok |-> FALSE, value |-> NoPayload]

\* ------------------------------------------------- the channel as bytes
\* The server writes blocks to its stdout: a message framed as
\* format_request frames it, or a header block with no body.  fed records
\* the blocks written; wire holds the bytes not yet read.  Reads block
\* until the bytes they ask for are there, so a block is written at once.
FramingPayloads ==
    {[id |-> 9 + Len(s), result |-> s] : s \in StringsUpTo(MaxStrLen)}
      \cup {[error |-> <<"a">>], [result |-> <<"a">>]}

HeaderBlocks ==
    { ContentLengthHeader \o <<"0">> \o CRLF \o CRLF,
      <<"X", ":", " ", "y">> \o CRLF \o CRLF,
      CRLF }

FrameBlock(p) ==
    [kind |-> "frame", bytes |-> UTF8Encode(format_request(p)), payload |-> p]

HeaderBlock(b) == [kind |-> "headers", bytes |-> b, payload |-> NoPayload]

Written(block) ==
    /\ wire' = wire \o block.bytes
    /\ fed' = Append(fed, block)

FeedFrame(p) ==
    /\ Len(fed) < MaxMsgs
    /\ alive
    /\ Written(FrameBlock(p))
    /\ UNCHANGED <<decoded, process, alive, callerVars, serverVars, outVars,
                   errVars, log_stderr>>

FeedHeaders(b) ==
    /\ Len(fed) < MaxMsgs
    /\ alive
    /\ Written(HeaderBlock(b))
    /\ UNCHANGED <<decoded, process, alive, callerVars, serverVars, outVars,
                   errVars, log_stderr>>

\* Variant: content_length keeps the value of the iteration before.
WireReadHeaders_stale ==
    /\ opc = "headers"
    /\ LET r == ReadHeaderBlock(wire, content_length)
       IN /\ r.state # "blocked"
          /\ wire' = r.rest
          /\ content_length' = r.cl
          /\ opc' = IF r.state = "error" THEN "crashed"
                    ELSE IF r.cl > 0 THEN "body"
                    ELSE "poll"
    /\ UNCHANGED <<fed, decoded, process, alive, callerVars, serverVars,
                   content, payload, calls, outLog, errVars, log_stderr>>

\* Lines 73-83 on bytes.  content_length starts at 0 (line 74); a value
\* int() rejects raises ValueError, which neither clause catches.
WireReadHeaders ==
    /\ opc = "headers"
    /\ LET r == ReadHeaderBlock(wire, 0)
       IN /\ r.state # "blocked"
          /\ wire' = r.rest
          /\ content_length' = r.cl
          /\ opc' = IF r.state = "error" THEN "crashed"
                    ELSE IF r.cl > 0 THEN "body"
                    ELSE "poll"
    /\ UNCHANGED <<fed, decoded, process, alive, callerVars, serverVars,
                   content, payload, calls, outLog, errVars, log_stderr>>

\* Lines 84-85 on bytes: read(content_length) waits for that many bytes;
\* decode raises UnicodeDecodeError, a ValueError, on a broken sequence.
WireReadBody ==
    /\ opc = "body"
    /\ Len(wire) >= content_length
    /\ LET d == UTF8Decode(Take(wire, content_length))
       IN IF d.ok
            THEN /\ content' = d.value
                 /\ opc' = "parse"
          ELSE /\ opc' = "crashed"
               /\ UNCHANGED content
    /\ wire' = Drop(wire, content_length)
    /\ UNCHANGED <<fed, decoded, process, alive, callerVars, serverVars,
                   content_length, payload, calls, outLog, errVars,
                   log_stderr>>

\* Lines 87-95 on text.
WireParse ==
    /\ opc = "parse"
    /\ LET r == json_loads_text(content)
       IN IF r.ok
            THEN /\ payload' = r.value
                 /\ decoded' = Append(decoded, r.value)
                 /\ outLog' = IF Get(r.value, "method") # "window/logMessage"
                                THEN Append(outLog, "got json: ")
                                ELSE outLog
                 /\ opc' = "dispatch"
                 /\ UNCHANGED <<process, alive, stdoutOpen>>
          ELSE IF Catches(ParseClause, "ValueError")
            THEN /\ payload' = NoPayload
                 /\ outLog' = Append(outLog, "Got a non-JSON payload: ")
                 /\ opc' = "poll"
                 /\ UNCHANGED <<decoded, process, alive, stdoutOpen>>
          ELSE IF Catches(OuterClause, "ValueError")
            THEN /\ payload' = NoPayload
                 /\ outLog' = Append(outLog,
                                "LSP stdout process ending due to exception: ")
                 /\ alive' = FALSE
                 /\ stdoutOpen' = FALSE
                 /\ process' = None
                 /\ opc' = "failed"
                 /\ UNCHANGED decoded
          ELSE /\ payload' = NoPayload
               /\ opc' = "crashed"
               /\ UNCHANGED <<decoded, process, alive, stdoutOpen, outLog>>
    /\ UNCHANGED <<wire, fed, callerVars, emitted, stdout, errLines,
                   errWritten, content_length, content, calls, errVars,
                   log_stderr>>

NextFraming ==
    \/ \E p \in FramingPayloads : FeedFrame(p)
    \/ \E b \in HeaderBlocks : FeedHeaders(b)
    \/ StdoutPoll
    \/ WireReadHeaders
    \/ WireReadBody
    \/ WireParse
    \/ \E o \in CallOutcomes : StdoutDispatch(o)

SpecFraming == Init /\ [][NextFraming]_vars

\* The bytes of a sequence of blocks, and what is left on the wire when
\* the loop has taken the first k blocks.
RECURSIVE BytesOf(_)
BytesOf(blocks) ==
    IF blocks = <<>> THEN <<>>
    ELSE Head(blocks).bytes \o BytesOf(Tail(blocks))

Pending(k) == BytesOf(SubSeq(fed, k + 1, Len(fed)))

IsFrame(block) == block.kind = "frame"

\* The payloads of the frames among the first k blocks, in order.
PayloadsOf(k) ==
    LET frames == SelectSeq(SubSeq(fed, 1, k), IsFrame)
    IN [i \in 1..Len(frames) |-> frames[i].payload]

BodyBytes(p) == UTF8Encode(json_dumps(p))

\* C13: a header block with Content-Length 0 or with no Content-Length is
\* taken with no body read and no dispatch, and the loop stays on block
\* boundaries: the block after it is read from its first byte and the
\* message dispatched is the one that block carries.
C13_BodilessBlockStep ==
    \A k \in 0..(MaxMsgs - 1) :
        (/\ k < Len(fed)
         /\ ~IsFrame(fed[k + 1])
         /\ opc = "headers"
         /\ wire = Pending(k)
         /\ opc' # "headers")
        => /\ opc' = "poll"
           /\ wire' = Pending(k + 1)
           /\ UNCHANGED <<content, payload, decoded, calls, outLog>>

C13_OnBoundary ==
    /\ opc \notin {"crashed", "failed"}
    /\ opc \in {"poll", "headers"} =>
         \E k \in 0..Len(fed) : wire = Pending(k) /\ decoded = PayloadsOf(k)
    /\ opc = "dispatch" =>
         \E k \in 1..Len(fed) : /\ wire = Pending(k)
                                /\ IsFrame(fed[k])
                                /\ payload = fed[k].payload

C13_BodilessBlockKeepsFraming ==
    [][C13_BodilessBlockStep]_vars /\ []C13_OnBoundary

\* Some bodiless block was followed by a frame, and that frame's message
\* has been dispatched.
C13_Witness ==
    /\ Len(fed) = 2
    /\ ~IsFrame(fed[1])
    /\ IsFrame(fed[2])
    /\ decoded = <<fed[2].payload>>
    /\ wire = <<>>
    /\ opc = "poll"
    /\ Len(outLog) >= 2

\* C16: a frame written by format_request is read back as exactly one
\* message equal to its payload: the declared length is the byte length of
\* the body, the text read is the text encoded, and the bytes after the
\* body are left for the next block.
C16_FramingRoundTrips ==
    /\ opc \notin {"crashed", "failed"}
    /\ opc = "body" =>
         \E k \in 1..Len(fed) :
             /\ IsFrame(fed[k])
             /\ content_length = Len(BodyBytes(fed[k].payload))
             /\ wire = BodyBytes(fed[k].payload) \o Pending(k)
             /\ decoded = PayloadsOf(k - 1)
    /\ opc = "parse" =>
         \E k \in 1..Len(fed) :
             /\ IsFrame(fed[k])
             /\ content = json_dumps(fed[k].payload)
             /\ wire = Pending(k)
             /\ decoded = PayloadsOf(k - 1)
    /\ opc \in {"dispatch", "poll", "headers"} =>
         \E k \in 0..Len(fed) : wire = Pending(k) /\ decoded = PayloadsOf(k)

\* Two frames back to back, the first with a non-ASCII string, both read.
C16_Witness ==
    /\ Len(fed) = 2
    /\ IsFrame(fed[1])
    /\ IsFrame(fed[2])
    /\ Has(fed[1].payload, "result")
    /\ "é" \in {fed[1].payload.result[i] : i \in 1..Len(fed[1].payload.result)}
    /\ decoded = <<fed[1].payload, fed[2].payload>>
    /\ wire = <<>>

\* The calling thread against the two loops: requests with and without a
\* handler, notifications and kill() interleaved with the server answering
\* and both threads running.
CallFrames == {Frame(1, JsonText([id |-> 1, result |-> ResultOf(1)]))}

NextCalls ==
    \/ \E m \in RequestMethods, h \in {"hA", None} : SendRequestIncrement(m, h)
    \/ SendRequestRegister
    \/ SendRequestSend
    \/ \E m \in {"initialized"} : SendNotification(m)
    \/ Kill
    \/ \E f \in CallFrames : ServerEmit(f)
    \/ ServerEmitStderr
    \/ StdoutPoll
    \/ StdoutReadHeaders
    \/ StdoutReadBody
    \/ StdoutParse
    \/ \E o \in {None} : StdoutDispatch(o)
    \/ StderrPoll
    \/ StderrBeginRead
    \/ StderrReadLine

SpecCalls == Init /\ [][NextCalls]_vars

\* The process was killed: writing to its stdin raises BrokenPipeError.
BrokenChannel == process # None /\ ~alive

SendingRequest == cpc = "send" /\ cpc' = "idle"

\* C14: when send_request's write meets a broken channel, the call logs
\* and returns without an exception, the id counter keeps the value the
\* call gave it and the handler it registered stays in the table.
C14_BrokenWriteKeepsRegistration ==
    [][(SendingRequest /\ BrokenChannel)
       => /\ callerExc' = None
          /\ callerLog' = Append(callerLog, "client unexpectedly died:")
          /\ stdin' = stdin
          /\ request_id' = request_id
          /\ handlers' = handlers
          /\ cargs.handler # None
               => /\ request_id \in DOMAIN handlers'
                  /\ handlers'[request_id] = cargs.handler]_vars

\* A request with a handler was sent after kill(): logged, nothing written,
\* the entry is there.
C14_Witness ==
    /\ BrokenChannel
    /\ cpc = "idle"
    /\ Len(issued) = 1
    /\ issued[1].handler = "hA"
    /\ stdin = <<>>
    /\ callerExc = None
    /\ callerLog = <<"request", "client unexpectedly died:">>
    /\ request_id = 1
    /\ 1 \in DOMAIN handlers

\* The calls made by the calling thread, in the order it made them, and
\* the kind of call a message on stdin comes from.
CallsMade == SelectSeq(callerLog, LAMBDA e : e \in {"request", "notify"})

CallKind(p) == IF Has(p, "id") THEN "request" ELSE "notify"

RequestsAmong(kinds) == Len(SelectSeq(kinds, LAMBDA e : e = "request"))

\* C18: what is on the server's stdin is, message for message, the calls
\* made in the order they were made, each request carrying the id of its
\* call: nothing reordered, repeated or mixed with another; and while the
\* process runs every call that has returned has its message written.
C18_WrittenInCallOrder ==
    LET kinds == [i \in 1..Len(stdin) |-> CallKind(stdin[i])]
    IN /\ Len(stdin) <= Len(CallsMade)
       /\ kinds = SubSeq(CallsMade, 1, Len(stdin))
       /\ \A i \in 1..Len(stdin) :
              Has(stdin[i], "id")
                  => stdin[i].id = RequestsAmong(SubSeq(kinds, 1, i))
       /\ (alive /\ process # None)
              => Len(stdin) = Len(CallsMade) - (IF cpc = "idle" THEN 0 ELSE 1)

\* A notification between two requests, all three written.
C18_Witness ==
    /\ Len(stdin) = 3
    /\ CallKind(stdin[1]) = "request"
    /\ CallKind(stdin[2]) = "notify"
    /\ CallKind(stdin[3]) = "request"
    /\ stdin[3].id = 2
    /\ cpc = "idle"

\* The handler passed with the send_request call that took id k, the call
\* in progress included.
PassedWith(k) ==
    IF k \in 1..Len(issued) THEN issued[k].handler
    ELSE IF cpc # "idle" /\ k = request_id THEN cargs.handler
    ELSE None

\* C19: the keys of the handler table are ids already issued by calls
\* that passed a handler, each entry is the handler passed with its id, an
\* id issued without a handler has no entry, and the table changes only
\* where send_request stores the handler it was given: never in
\* send_notification, kill or either reader loop.
C19_TableKeys ==
    /\ DOMAIN handlers \subseteq 1..request_id
    /\ \A k \in DOMAIN handlers :
           PassedWith(k) # None /\ handlers[k] = PassedWith(k)
    /\ \A k \in 1..request_id : PassedWith(k) = None => k \notin DOMAIN handlers

C19_TableStep ==
    handlers' # handlers
        => /\ cpc = "register"
           /\ cpc' = "send"
           /\ cargs.handler # None
           /\ request_id \notin DOMAIN handlers
           /\ handlers' = (request_id :> cargs.handler) @@ handlers

C19_TableHoldsIssuedHandlers == []C19_TableKeys /\ [][C19_TableStep]_vars

\* Two requests sent, the second without a handler, a notification sent, a
\* response dispatched by the stdout thread, a line read by the stderr
\* thread, the process killed: the table holds the first id alone.
C19_Witness ==
    /\ request_id = 2
    /\ cpc = "idle"
    /\ Len(issued) = 2
    /\ issued[1].handler = "hA"
    /\ issued[2].handler = None
    /\ notified = 1
    /\ ~alive
    /\ calls # <<>>
    /\ errWritten > 0
    /\ errLines = 0
    /\ DOMAIN handlers = {1}

\* kill() against the two loops.  Here the process ends only through the
\* client: kill() (line 54), or terminate() in the stdout loop's IOError
\* handler (line 117).  Each thread keeps being scheduled while it has a
\* step to take; reads that fail, the server's writes and its closing of
\* stdout are left to the environment.
NextKill ==
    \/ \E m \in RequestMethods, h \in {"hA"} : SendRequestIncrement(m, h)
    \/ SendRequestRegister
    \/ SendRequestSend
    \/ Kill
    \/ \E f \in LoopFrames : ServerEmit(f)
    \/ ServerEmitStderr
    \/ ServerCloseStdout
    \/ StdoutPoll
    \/ StdoutReadHeaders
    \/ StdoutReadBody
    \/ StdoutIOError
    \/ StdoutParse
    \/ \E o \in CallOutcomes : StdoutDispatch(o)
    \/ StderrPoll
    \/ StderrBeginRead
    \/ StderrReadLine
    \/ StderrIOError

ThreadsScheduled ==
    /\ WF_vars(StdoutPoll)
    /\ WF_vars(StdoutReadHeaders)
    /\ WF_vars(StdoutReadBody)
    /\ WF_vars(StdoutParse)
    /\ WF_vars(\E o \in CallOutcomes : StdoutDispatch(o))
    /\ WF_vars(StderrPoll)
    /\ WF_vars(StderrBeginRead)
    /\ WF_vars(StderrReadLine)

SpecKill == InitLoops /\ [][NextKill]_vars /\ ThreadsScheduled

\* ------------------------------------------------------------ observation
\* Frames the stdout thread has taken off the pipe, and those among them
\* whose iteration is over.
NConsumed == Len(emitted) - Len(stdout)
NDone == IF opc \in {"parse", "dispatch"} THEN NConsumed - 1 ELSE NConsumed

IsJson(f) == f.len > 0 /\ f.body.valid
IsResponse(f) == IsJson(f) /\ Classify(f.body.obj) = "response"
IsErrorResponse(f) == IsJson(f) /\ Has(f.body.obj, "error")
                        /\ Has(f.body.obj, "id")

\* The handler the caller passed with request k (None: none, or no such
\* request).
Passed(k) == IF k \in 1..Len(issued) THEN issued[k].handler ELSE None

\* A response to a request that was sent with a handler.
Answers(f) == IsResponse(f) /\ Passed(f.body.obj.id) # None

\* The invocations the responses among the first n frames call for, in
\* arrival order: the handler passed with the request of that id, with
\* that response's result.
RECURSIVE Expected(_)
Expected(n) ==
    IF n = 0 THEN <<>>
    ELSE LET f == emitted[n]
         IN IF Answers(f)
              THEN Append(Expected(n - 1),
                          Invocation(Passed(f.body.obj.id), f.body.obj.result))
              ELSE Expected(n - 1)

HandlerCalls == SelectSeq(calls, LAMBDA c : c.target \in Callables)

\* ----------------------------------------------------------------- claims
\* C1: when the responses to pending requests arrive, in whatever order of
\* ids, the handler invocations made are exactly one per response, each
\* the handler passed with the request of that response's id, called with
\* that response's result; no handler is called with another's result.
C1_EachHandlerOwnResult == HandlerCalls = Expected(NDone)

\* Two requests with different handlers are pending, the responses came
\* back in the order 2, 1 and both have been dispatched.
C1_Witness ==
    /\ Len(issued) = 2
    /\ issued[1].handler = "hA"
    /\ issued[2].handler = "hB"
    /\ NDone = 2
    /\ IsResponse(emitted[1]) /\ emitted[1].body.obj.id = 2
    /\ IsResponse(emitted[2]) /\ emitted[2].body.obj.id = 1
    /\ calls = <<Invocation("hB", ResultOf(2)), Invocation("hA", ResultOf(1))>>

\* C2: the ids placed in the payloads of successive send_request calls are
\* 1, 2, ..., N in call order, with or without a handler, also after
\* responses were consumed.
C2_IdsCountUp ==
    /\ \A i \in 1..Len(issued) : issued[i].id = i
    /\ \A i \in 1..Len(stdin) : stdin[i].id = i

\* A request without handler, its response consumed, then a second request.
C2_Witness ==
    /\ Len(issued) = 2
    /\ issued[1].handler = None
    /\ Len(stdin) = 2
    /\ NDone >= 1
    /\ IsResponse(emitted[1]) /\ emitted[1].body.obj.id = 1

\* C3: resolving a response removes its entry from the table: once the
\* response for a registered id has been dispatched, that id is no longer
\* a key of self.handlers.
C3_ResolvedEntryRemoved ==
    \A i \in 1..NDone :
        Answers(emitted[i]) => emitted[i].body.obj.id \notin DOMAIN handlers

\* C4: a body that does not parse is logged and leaves the stdout loop
\* running: after the iteration that read it the thread is back in its
\* loop and has logged the non-JSON payload.
C4_MalformedBodyKeepsLoop ==
    \A i \in 1..NDone :
        (emitted[i].len > 0 /\ ~emitted[i].body.valid)
            => /\ opc \in {"poll", "headers", "body"}
               /\ \E j \in 1..Len(outLog) :
                      outLog[j] = "Got a non-JSON payload: "

\* The step that dispatches the decoded object in hand.
Dispatching == opc = "dispatch" /\ opc' # "dispatch"

\* C5: dispatching a response whose id is not a key of the table logs,
\* invokes nothing, leaves the table and the id counter as they were and
\* returns the stdout thread to the top of its loop.
C5_UnknownIdLoggedOnly ==
    [][(Dispatching /\ Classify(payload) = "response"
          /\ payload.id \notin DOMAIN handlers)
       => /\ calls' = calls
          /\ handlers' = handlers
          /\ request_id' = request_id
          /\ Len(outLog') > Len(outLog)
          /\ outLog'[Len(outLog) + 1] = "error handling response"
          /\ opc' = "poll"]_vars

\* A response to a request sent without handler was dispatched, and the
\* response after it reached its handler.
C5_Witness ==
    /\ NDone = 2
    /\ IsResponse(emitted[1]) /\ emitted[1].body.obj.id = 1
    /\ Passed(1) = None
    /\ Answers(emitted[2])
    /\ Len(HandlerCalls) = 1
    /\ opc = "poll"

\* Requests the server has received.
Received == {i \in 1..Len(stdin) : Has(stdin[i], "id")}

\* C6: whatever the interleaving of send_request's steps with the stdout
\* thread, the handler passed with request k is in the table under k from
\* the moment the server has request k, and a response to request k is
\* dispatched to that handler with that response's result.
C6_NoLostOrMisattributed ==
    /\ [](\A i \in Received :
              Passed(stdin[i].id) # None
                  => /\ stdin[i].id \in DOMAIN handlers
                     /\ handlers[stdin[i].id] = Passed(stdin[i].id))
    /\ [][(Dispatching /\ Classify(payload) = "response"
             /\ payload.id \in {stdin[i].id : i \in Received}
             /\ Passed(payload.id) # None)
          => calls' = Append(calls, Invocation(Passed(payload.id),
                                               payload.result))]_vars

\* The response to request 1 is dispatched to its handler while the
\* calling thread is in the middle of the second send_request.
C6_Witness ==
    /\ cpc \in {"register", "send"}
    /\ request_id = 2
    /\ NDone = 1
    /\ Answers(emitted[1])
    /\ calls = <<Invocation(Passed(1), ResultOf(1))>>

\* C7: a read failure ends its own loop only: once the stdout loop has
\* exited on an I/O failure, the stderr loop is still in its own
\* read/liveness cycle or has ended through its own liveness check or its
\* own I/O failure, never through an unhandled failure.
C7_LoopsEndIndependently ==
    opc = "failed" => epc \in {"poll", "read", "reading", "ended", "failed"}

\* C8: nothing from the reader loops reaches the calling thread as a
\* failure: no call of send_request, send_notification or kill raises,
\* a broken-pipe write being caught inside send_payload.
C8_CallerSeesNoFailure == callerExc = None

\* C9: an exception raised while one decoded object is dispatched is
\* caught and logged within that iteration: the dispatch step always
\* returns the stdout thread to the top of its loop, and what
\* response_handler logged and raised again is followed in the log by the
\* loop's own entry for the caught exception.
C9_DispatchErrorsCaught ==
    /\ [][Dispatching => opc' = "poll"]_vars
    /\ [](\A j \in 1..Len(outLog) :
              outLog[j] = "error handling response"
                  => /\ j < Len(outLog)
                     /\ outLog[j + 1] = "Error handling server content:")

\* The handler of the first response raised; the second response was
\* read and dispatched to its handler all the same.
C9_Witness ==
    /\ NDone = 2
    /\ Answers(emitted[1]) /\ Answers(emitted[2])
    /\ Len(calls) = 2
    /\ outLog = <<"got json: ", "error handling response",
                  "Error handling server content:", "got json: ">>
    /\ opc = "poll"

Killed == ~alive /\ process # None

\* A loop has left read_stdout / read_stderr through one of its own exits:
\* the liveness check or its own IOError handler.
StdoutExited == opc \in {"ended", "failed"}
StderrExited == epc \in {"ended", "failed"}

\* C11: after kill() each of the two loops eventually sees that the
\* process has terminated and exits by itself, independently of the other.
C11_BothLoopsExitAfterKill == Killed ~> (StdoutExited /\ StderrExited)

\* The stdout pipe is at end of stream: closed by the server, nothing left.
StdoutAtEOF == stdout = <<>> /\ ~stdoutOpen

\* C12: when a read of headers returns end of stream, the stdout loop
\* closes down: it eventually exits.
C12_EndOfStreamEndsLoop ==
    (opc = "headers" /\ StdoutAtEOF) ~> (opc \in {"ended", "failed", "crashed"})

\* The branches of the dispatch against every combination of fields, and
\* the notifications by method.
ClassifyFrames ==
    {Frame(1, JsonText(o)) :
        o \in PresenceObjects({1, UnknownId}) \cup Notifications}

NextClassify ==
    \/ \E m \in RequestMethods, h \in {"hA"} : SendRequestIncrement(m, h)
    \/ SendRequestRegister
    \/ SendRequestSend
    \/ \E f \in ClassifyFrames : ServerEmit(f)
    \/ StdoutPoll
    \/ StdoutReadHeaders
    \/ StdoutReadBody
    \/ StdoutParse
    \/ \E o \in CallOutcomes : StdoutDispatch(o)

SpecClassify == Init /\ [][NextClassify]_vars

\* What a dispatch step added to the log and to the calls made.
NewLog == SubSeq(outLog', Len(outLog) + 1, Len(outLog'))
NewCalls == SubSeq(calls', Len(calls) + 1, Len(calls'))

Branches == {"error", "request", "notification", "response", "unknown"}

\* The branch a dispatch step went through, told by what it did.
Took(b) ==
    CASE b = "error" -> NewLog # <<>> /\ NewLog[1] = "got error: "
      [] b = "request" -> NewLog = <<"Unhandled request">>
      [] b = "notification" -> NewLog = <<"Unhandled notification:">>
      [] b = "response" ->
            \/ \E i \in 1..Len(NewLog) : NewLog[i] = "error handling response"
            \/ \E i \in 1..Len(NewCalls) : NewCalls[i].target \in Callables
      [] OTHER -> NewLog = <<"Unknown payload type: ">>

\* The branch for the fields present, in the order of priority.
BranchFor(e, m, i) ==
    CASE e -> "error"
      [] ~e /\ m /\ i -> "request"
      [] ~e /\ m /\ ~i -> "notification"
      [] ~e /\ ~m /\ i -> "response"
      [] ~e /\ ~m /\ ~i -> "unknown"

\* C15: a decoded object goes through exactly one branch, the one its
\* fields select: error, whatever else is present; else method with id,
\* server request; else method alone, notification; else id alone,
\* response; else unknown, which is logged and nothing more.
C15_OneBranchByPriority ==
    [][(Dispatching /\ Get(payload, "method") \in {None, "custom/notify"})
       => /\ Cardinality({b \in Branches : Took(b)}) = 1
          /\ Took(BranchFor(Has(payload, "error"), Has(payload, "method"),
                            Has(payload, "id")))
          /\ (~Has(payload, "error") /\ ~Has(payload, "method")
                /\ ~Has(payload, "id"))
               => calls' = calls /\ handlers' = handlers]_vars

\* An object with error, method and id went through the error branch and
\* one with method and id went through the request branch.
C15_Witness ==
    /\ NDone = 2
    /\ emitted[1].body.obj = Fields(TRUE, TRUE, UnknownId)
    /\ emitted[2].body.obj = Fields(FALSE, TRUE, UnknownId)
    /\ outLog = <<"got json: ", "got error: ", "Error handling server content:",
                  "got json: ", "Unhandled request">>
    /\ opc = "poll"

\* C17: dispatching a window/logMessage notification hands its message to
\* the log sink, server_log, and touches neither the handler table nor the
\* id counter nor the message sink; a notification with a method outside
\* the known ones is logged and changes nothing else.
C17_LogMessageForwarded ==
    [][(Dispatching /\ ~Has(payload, "error") /\ Has(payload, "method")
          /\ ~Has(payload, "id"))
       => /\ Get(payload, "method") = "window/logMessage"
               => /\ \E i \in 1..Len(NewCalls) :
                         NewCalls[i].target = "server_log"
                  /\ \A i \in 1..Len(NewCalls) :
                         NewCalls[i].target # "message_dialog"
                  /\ handlers' = handlers
                  /\ request_id' = request_id
          /\ Get(payload, "method") = "custom/notify"
               => /\ NewLog = <<"Unhandled notification:">>
                  /\ calls' = calls
                  /\ handlers' = handlers
                  /\ request_id' = request_id]_vars

\* C20 as stated: after kill() no step invokes a response handler.
C20_NoHandlerAfterKill == [][~alive => HandlerCalls' = HandlerCalls]_vars

\* C20: after kill() a handler is invoked only by the dispatch of the
\* message the stdout loop was already on, a dispatch that takes the loop
\* back to its liveness check; from that check the loop can only end, and
\* once ended it invokes nothing.
C20_OnlyMessageInProgressAfterKill ==
    [][~alive
       => /\ HandlerCalls' # HandlerCalls => (Dispatching /\ opc' = "poll")
          /\ opc = "poll" => opc' \in {"poll", "ended"}
          /\ opc = "ended" => (opc' = "ended" /\ calls' = calls)]_vars

\* Killed with a handler registered and a response still unread: the loop
\* has ended after one dispatch and the second response stays unread.
C20_Witness ==
    /\ ~alive
    /\ opc = "ended"
    /\ Len(emitted) = 2
    /\ Len(stdout) = 1
    /\ Len(HandlerCalls) = 1
    /\ DOMAIN handlers # {}

====
